---- MODULE Spec2Model ----
(***************************************************************************)
(* A model of dns/rdata.py (dnspython): the rdata type registry            *)
(* (_rdata_classes, get_rdata_class, register_type), the dispatching       *)
(* from_text / from_wire, GenericRdata, the Rdata comparison and replace   *)
(* methods and the _hexify / _truncate_bitmap helpers.                     *)
(*                                                                         *)
(* Texts are sequences of pieces (strings), so that '.'.join, replace and  *)
(* character-level parsing are computed and not assumed.                   *)
(***************************************************************************)
EXTENDS Integers, Sequences, FiniteSets, TLC

VARIABLES
    rdata_classes,  \* _rdata_classes: (rdclass, rdtype) -> class, or None
    by_value,       \* dns.rdatatype's registry: rdtype -> text
    singletons,     \* dns.rdatatype's set of singleton rdtypes
    modules,        \* the importable modules under _module_prefix
    ret,            \* what the last call returned or raised
    first,          \* history: what the first lookup of each key returned
    registered,     \* history: the keys register_type has bound
    args,           \* the arguments the calls of a codec run are made with
    threads         \* the threads of a concurrent run: position and locals

vars == <<rdata_classes, by_value, singletons, modules, ret, first, registered,
          args, threads>>

(***************************************************************************)
(* Classes, types and their texts                                          *)
(***************************************************************************)
RDCLASS_IN == 1
RDCLASS_CH == 3
ANY == 255
NSAP_PTR == 23

Classes == {RDCLASS_IN, RDCLASS_CH, ANY}
Types == {NSAP_PTR}
Keys == Classes \X Types

\* dns.rdataclass.to_text
RdataclassToText(rdclass) ==
    CASE rdclass = RDCLASS_IN -> <<"IN">>
      [] rdclass = RDCLASS_CH -> <<"CH">>
      [] rdclass = ANY -> <<"ANY">>

\* the texts dns.rdatatype starts with
DefaultTypeText(rdtype) ==
    CASE rdtype = NSAP_PTR -> <<"NSAP", "-", "PTR">>

\* dns.rdatatype.to_text
RdatatypeToText(texts, rdtype) == texts[rdtype]

\* str.replace('-', '_')
ReplaceDash(text) ==
    [i \in 1..Len(text) |-> IF text[i] = "-" THEN "_" ELSE text[i]]

(***************************************************************************)
(* Classes (implementations) are named by their module and attribute.      *)
(***************************************************************************)
None == [module |-> <<>>, attr |-> <<>>]
GenericRdata == [module |-> <<"dns", "rdata">>, attr |-> <<"GenericRdata">>]
module_prefix == <<"dns", "rdtypes">>

\* '.'.join([_module_prefix, rdclass_text, rdtype_text])
ModuleName(rdclass_text, rdtype_text) ==
    module_prefix \o rdclass_text \o rdtype_text

\* getattr(mod, name)
GetAttr(mod, name) == [module |-> mod, attr |-> name]

\* The modules that may exist under dns.rdtypes.
CandidateModules ==
    { ModuleName(<<"IN">>, <<"NSAP", "_", "PTR">>),
      ModuleName(<<"ANY">>, <<"NSAP", "_", "PTR">>) }

\* what register_type is called with: a module and the type's text
RegInputs ==
    { [implementation |-> <<"tests", "ttxt_module">>,
       rdtype_text |-> <<"T", "-", "TXT">>, is_singleton |-> FALSE],
      [implementation |-> <<"tests", "stxt_module">>,
       rdtype_text |-> <<"STXT">>, is_singleton |-> TRUE],
      [implementation |-> <<"dns", "rdata">>,
       rdtype_text |-> <<"GenericRdata">>, is_singleton |-> FALSE] }

(***************************************************************************)
(* get_rdata_class: the class returned and the cache it leaves.            *)
(***************************************************************************)
GetRdataClass(cache, texts, mods, rdclass, rdtype) ==
    LET exact == cache[<<rdclass, rdtype>>]
        wild == cache[<<ANY, rdtype>>]
        rdtype_text == ReplaceDash(RdatatypeToText(texts, rdtype))
        specific == ModuleName(RdataclassToText(rdclass), rdtype_text)
        any == ModuleName(<<"ANY">>, rdtype_text)
    IN  IF exact # None
        THEN [cls |-> exact, cache |-> cache]
        ELSE IF wild # None
        THEN [cls |-> wild, cache |-> cache]
        ELSE IF specific \in mods
        THEN [cls |-> GetAttr(specific, rdtype_text),
              cache |-> [cache EXCEPT ![<<rdclass, rdtype>>] =
                            GetAttr(specific, rdtype_text)]]
        ELSE IF any \in mods
        THEN [cls |-> GetAttr(any, rdtype_text),
              cache |-> [cache EXCEPT ![<<ANY, rdtype>>] =
                            GetAttr(any, rdtype_text),
                         ![<<rdclass, rdtype>>] =
                            GetAttr(any, rdtype_text)]]
        ELSE [cls |-> GenericRdata,
              cache |-> [cache EXCEPT ![<<rdclass, rdtype>>] = GenericRdata]]

(***************************************************************************)
(* register_type: whether it raises, and the cache it leaves.              *)
(***************************************************************************)
RegisterTypeUnchecked(cache, texts, mods, implementation, rdtype, rdtype_text, rdclass) ==
    LET existing == GetRdataClass(cache, texts, mods, rdclass, rdtype)
    IN  [raised |-> "",
         cache |-> [existing.cache EXCEPT ![<<rdclass, rdtype>>] =
                       GetAttr(implementation, ReplaceDash(rdtype_text))]]

RegisterTypeKeyCached(cache, texts, mods, implementation, rdtype, rdtype_text, rdclass) ==
    LET existing == GetRdataClass(cache, texts, mods, rdclass, rdtype)
    IN  IF cache[<<rdclass, rdtype>>] # None
        THEN [raised |-> "RdatatypeExists", cache |-> existing.cache]
        ELSE [raised |-> "",
              cache |-> [existing.cache EXCEPT ![<<rdclass, rdtype>>] =
                            GetAttr(implementation, ReplaceDash(rdtype_text))]]

RegisterType(cache, texts, mods, implementation, rdtype, rdtype_text, rdclass) ==
    LET existing == GetRdataClass(cache, texts, mods, rdclass, rdtype)
    IN  IF existing.cls # GenericRdata
        THEN [raised |-> "RdatatypeExists", cache |-> existing.cache]
        ELSE [raised |-> "",
              cache |-> [existing.cache EXCEPT ![<<rdclass, rdtype>>] =
                            GetAttr(implementation, ReplaceDash(rdtype_text))]]

(***************************************************************************)
(* The calls                                                               *)
(***************************************************************************)
NoCall == [op |-> "", rdclass |-> 0, rdtype |-> 0, cls |-> None, raised |-> ""]

NoArgs == <<>>
NoThreads == <<>>

\* The registry as the process starts: nothing cached, nothing registered.
InitRegistry ==
    /\ rdata_classes = [k \in Keys |-> None]
    /\ by_value = [t \in Types |-> DefaultTypeText(t)]
    /\ singletons = {}
    /\ first = [k \in Keys |-> None]
    /\ registered = {}

Init ==
    /\ InitRegistry
    /\ modules \in SUBSET CandidateModules
    /\ ret = NoCall
    /\ args = NoArgs
    /\ threads = NoThreads

CallGetRdataClass(rdclass, rdtype) ==
    LET r == GetRdataClass(rdata_classes, by_value, modules, rdclass, rdtype)
    IN  /\ rdata_classes' = r.cache
        /\ ret' = [op |-> "get_rdata_class", rdclass |-> rdclass,
                   rdtype |-> rdtype, cls |-> r.cls, raised |-> ""]
        /\ first' = IF first[<<rdclass, rdtype>>] = None
                    THEN [first EXCEPT ![<<rdclass, rdtype>>] = r.cls]
                    ELSE first
        /\ UNCHANGED <<by_value, singletons, modules, registered, args, threads>>

CallRegisterType(inp, rdtype, rdclass) ==
    LET r == RegisterType(rdata_classes, by_value, modules, inp.implementation,
                          rdtype, inp.rdtype_text, rdclass)
    IN  /\ rdata_classes' = r.cache
        /\ ret' = [op |-> "register_type", rdclass |-> rdclass,
                   rdtype |-> rdtype,
                   cls |-> GetAttr(inp.implementation,
                                   ReplaceDash(inp.rdtype_text)),
                   raised |-> r.raised]
        /\ IF r.raised = ""
           THEN /\ by_value' = [by_value EXCEPT ![rdtype] = inp.rdtype_text]
                /\ singletons' = IF inp.is_singleton
                                 THEN singletons \cup {rdtype}
                                 ELSE singletons
                /\ registered' = registered \cup {<<rdclass, rdtype>>}
           ELSE UNCHANGED <<by_value, singletons, registered>>
        /\ UNCHANGED <<modules, first, args, threads>>

Next ==
    \/ \E k \in Keys : CallGetRdataClass(k[1], k[2])
    \/ \E inp \in RegInputs, k \in Keys : CallRegisterType(inp, k[2], k[1])

Spec == Init /\ [][Next]_vars
(***************************************************************************)
(* The registry's claims, under Spec                                       *)
(***************************************************************************)
\* what a lookup of key k returns in the current state
Lookup(k) ==
    GetRdataClass(rdata_classes, by_value, modules, k[1], k[2]).cls

RetKey == <<ret.rdclass, ret.rdtype>>

\* C1 as stated: every lookup of a key returns what the first lookup of the
\* key returned, and register_type binds a key only before its first use.
C1_MonotonicBinding ==
    /\ ret.op = "get_rdata_class" => ret.cls = first[RetKey]
    /\ (ret.op = "register_type" /\ ret.raised = "") => first[RetKey] = None

\* C1 amended: once a lookup of a key has returned a non-Generic class,
\* every later lookup of the key returns that class; a key whose first
\* lookup returned GenericRdata resolves to GenericRdata until register_type
\* binds the key or its (ANY, type) key, which it may do after first use.
C1_NonGenericBindingStable ==
    \A k \in Keys :
        /\ first[k] \notin {None, GenericRdata} => Lookup(k) = first[k]
        /\ (first[k] = GenericRdata /\ Lookup(k) # GenericRdata)
              => (k \in registered \/ <<ANY, k[2]>> \in registered)

\* a key whose first lookup returned a class other than GenericRdata, looked
\* up again after register_type calls
C1_Witness ==
    /\ ret.op = "get_rdata_class"
    /\ first[RetKey] \notin {None, GenericRdata}
    /\ ret.cls = first[RetKey]
    /\ registered # {}

\* the place a key's first lookup returned GenericRdata and register_type
\* bound it afterwards
C1_ReboundAfterUse ==
    /\ ret.op = "get_rdata_class"
    /\ first[RetKey] = GenericRdata
    /\ ret.cls # GenericRdata

\* C2 as stated: a lookup of (class, type) whose class-specific module can
\* be loaded returns the class of that module.
C2_SpecificPriority ==
    (ret.op = "get_rdata_class" /\ ret.rdclass # ANY)
      => LET rdtype_text == ReplaceDash(RdatatypeToText(by_value, ret.rdtype))
             specific == ModuleName(RdataclassToText(ret.rdclass), rdtype_text)
         IN  specific \in modules => ret.cls = GetAttr(specific, rdtype_text)

\* C3: register_type raises RdatatypeExists exactly when the key resolved to
\* a class other than GenericRdata before the call; otherwise it binds the
\* key to the given class, lookups of the key then return it, and (the class
\* not being GenericRdata itself) every further register_type of the key
\* raises.
C3_RegisterStep ==
    ret'.op = "register_type" =>
        LET k == <<ret'.rdclass, ret'.rdtype>>
            before == Lookup(k)
        IN  /\ (ret'.raised = "RdatatypeExists") <=> (before # GenericRdata)
            /\ ret'.raised \in {"", "RdatatypeExists"}
            /\ ret'.raised = "" =>
                  /\ rdata_classes'[k] = ret'.cls
                  /\ GetRdataClass(rdata_classes', by_value', modules',
                                   k[1], k[2]).cls = ret'.cls
                  /\ ret'.cls # GenericRdata =>
                        \A inp \in RegInputs :
                            RegisterType(rdata_classes', by_value', modules',
                                         inp.implementation, k[2],
                                         inp.rdtype_text, k[1]).raised
                              = "RdatatypeExists"
            /\ ret'.raised = "RdatatypeExists" =>
                  /\ by_value' = by_value
                  /\ GetRdataClass(rdata_classes', by_value', modules',
                                   k[1], k[2]).cls = before

C3_RegisterRaisesIffBound == [][C3_RegisterStep]_vars

\* a second register_type of a key the first one bound, refused
C3_Witness ==
    /\ ret.op = "register_type"
    /\ ret.raised = "RdatatypeExists"
    /\ RetKey \in registered
    /\ rdata_classes[RetKey] \notin {None, GenericRdata}
(***************************************************************************)
(* Bytes are sequences of 0..255 and texts sequences of characters.        *)
(***************************************************************************)
hex_chunksize == 32

LowerHex == <<"0", "1", "2", "3", "4", "5", "6", "7", "8", "9",
              "a", "b", "c", "d", "e", "f">>
UpperHex == <<"0", "1", "2", "3", "4", "5", "6", "7", "8", "9",
              "A", "B", "C", "D", "E", "F">>
Digits == <<"0", "1", "2", "3", "4", "5", "6", "7", "8", "9">>

\* Python's s[lo:hi] for 0 <= lo, 0 <= hi (indices past the end are clamped)
Slice(s, lo, hi) ==
    LET top == IF hi > Len(s) THEN Len(s) ELSE hi
    IN  IF lo >= top THEN <<>> ELSE [i \in 1..(top - lo) |-> s[lo + i]]

\* binascii.hexlify
Hexlify(data) ==
    [i \in 1..(2 * Len(data)) |->
        IF i % 2 = 1 THEN LowerHex[(data[(i + 1) \div 2] \div 16) + 1]
                     ELSE LowerHex[(data[i \div 2] % 16) + 1]]

\* b' '.join(chunks)
RECURSIVE JoinChunks(_)
JoinChunks(chunks) ==
    IF Len(chunks) = 0 THEN <<>>
    ELSE IF Len(chunks) = 1 THEN chunks[1]
    ELSE chunks[1] \o <<" ">> \o JoinChunks(Tail(chunks))

\* range(0, len(line), chunksize), as the sequence of its values
RangeByStep(n, step) ==
    [j \in 1..((n + step - 1) \div step) |-> (j - 1) * step]

HexifyOffByOne(data, chunksize) ==
    LET line == Hexlify(data)
        starts == RangeByStep(Len(line), chunksize + 1)
    IN  JoinChunks([j \in 1..Len(starts) |->
                       Slice(line, starts[j], starts[j] + chunksize + 1)])

\* _hexify
Hexify(data, chunksize) ==
    LET line == Hexlify(data)
        starts == RangeByStep(Len(line), chunksize)
    IN  JoinChunks([j \in 1..Len(starts) |->
                       Slice(line, starts[j], starts[j] + chunksize)])

\* '%d' % n, for n >= 0
RECURSIVE ToDecimal(_)
ToDecimal(n) ==
    IF n < 10 THEN <<Digits[n + 1]>>
    ELSE ToDecimal(n \div 10) \o <<Digits[(n % 10) + 1]>>

IsDigit(c) == \E i \in 1..10 : Digits[i] = c
DigitValue(c) == (CHOOSE i \in 1..10 : Digits[i] = c) - 1

\* str.isdigit
IsDigits(text) == Len(text) > 0 /\ \A i \in 1..Len(text) : IsDigit(text[i])

\* int(text, 10) of a text of digits
RECURSIVE ParseInt(_)
ParseInt(text) ==
    IF Len(text) = 0 THEN 0
    ELSE 10 * ParseInt(SubSeq(text, 1, Len(text) - 1))
           + DigitValue(text[Len(text)])

IsHexDigit(c) == \E i \in 1..16 : LowerHex[i] = c \/ UpperHex[i] = c
HexValue(c) == (CHOOSE i \in 1..16 : LowerHex[i] = c \/ UpperHex[i] = c) - 1

\* binascii.unhexlify: the bytes, or binascii.Error for an odd length or a
\* character that is no hex digit
Unhexlify(hex) ==
    IF Len(hex) % 2 = 1 \/ \E i \in 1..Len(hex) : ~IsHexDigit(hex[i])
    THEN [raised |-> "binascii.Error", data |-> <<>>]
    ELSE [raised |-> "",
          data |-> [i \in 1..(Len(hex) \div 2) |->
                       16 * HexValue(hex[2 * i - 1]) + HexValue(hex[2 * i])]]

(***************************************************************************)
(* dns.tokenizer, as rdata.py uses it: get, unget, get_int and the token   *)
(* predicates.                                                             *)
(***************************************************************************)
Identifier(value) == [ttype |-> "IDENTIFIER", value |-> value]
QuotedString(value) == [ttype |-> "QUOTED_STRING", value |-> value]
EOL == [ttype |-> "EOL", value |-> <<"\n">>]
EOF == [ttype |-> "EOF", value |-> <<>>]
NoToken == [ttype |-> "", value |-> <<>>]
GenericEscape == <<"\\", "#">>

IsIdentifier(token) == token.ttype = "IDENTIFIER"
IsEolOrEof(token) == token.ttype \in {"EOL", "EOF"}

\* dns.tokenizer.Tokenizer over a token stream
Tokenizer(tokens) == [tokens |-> tokens, pos |-> 1, ungotten |-> NoToken]

TokGet(tok) ==
    IF tok.ungotten # NoToken
    THEN [token |-> tok.ungotten, tok |-> [tok EXCEPT !.ungotten = NoToken]]
    ELSE IF tok.pos > Len(tok.tokens)
    THEN [token |-> EOF, tok |-> tok]
    ELSE [token |-> tok.tokens[tok.pos], tok |-> [tok EXCEPT !.pos = @ + 1]]

TokUnget(tok, token) == [tok EXCEPT !.ungotten = token]

TokGetInt(tok) ==
    LET g == TokGet(tok)
    IN  IF ~IsIdentifier(g.token) \/ ~IsDigits(g.token.value)
        THEN [raised |-> "SyntaxError", value |-> 0, tok |-> g.tok]
        ELSE [raised |-> "", value |-> ParseInt(g.token.value), tok |-> g.tok]

\* the tokens a reader of tok gets up to the end of the input
RECURSIVE ReadAll(_)
ReadAll(tok) ==
    LET g == TokGet(tok)
    IN  IF g.token.ttype = "EOF" THEN <<>> ELSE <<g.token>> \o ReadAll(g.tok)

(***************************************************************************)
(* GenericRdata                                                            *)
(***************************************************************************)
NoRdata == [cls |-> None, rdclass |-> 0, rdtype |-> 0, data |-> <<>>]

\* GenericRdata.__init__
GenericInit(rdclass, rdtype, data) ==
    [cls |-> GenericRdata, rdclass |-> rdclass, rdtype |-> rdtype,
     data |-> data]

\* GenericRdata.to_text
GenericToText(rdata) ==
    <<"\\", "#", " ">> \o ToDecimal(Len(rdata.data)) \o <<" ">>
        \o Hexify(rdata.data, hex_chunksize)

\* GenericRdata.to_wire
GenericToWire(rdata, file) == file \o rdata.data

GenericFromWireNoOffset(rdclass, rdtype, wire, current, rdlen) ==
    GenericInit(rdclass, rdtype, Slice(wire, current, rdlen))

\* GenericRdata.from_wire
GenericFromWire(rdclass, rdtype, wire, current, rdlen) ==
    GenericInit(rdclass, rdtype, Slice(wire, current, current + rdlen))

\* the while loop of GenericRdata.from_text: the chunks up to EOL or EOF
RECURSIVE ReadChunks(_, _)
ReadChunks(tok, hex) ==
    LET g == TokGet(tok)
    IN  IF IsEolOrEof(g.token) THEN [hex |-> hex, tok |-> g.tok]
        ELSE ReadChunks(g.tok, hex \o g.token.value)

\* GenericRdata.from_text
GenericFromText(rdclass, rdtype, tok) ==
    LET g == TokGet(tok)
        n == TokGetInt(g.tok)
        c == ReadChunks(n.tok, <<>>)
        u == Unhexlify(c.hex)
    IN  IF ~IsIdentifier(g.token) \/ g.token.value # GenericEscape
        THEN [raised |-> "SyntaxError", rdata |-> NoRdata, tok |-> g.tok]
        ELSE IF n.raised # ""
        THEN [raised |-> n.raised, rdata |-> NoRdata, tok |-> n.tok]
        ELSE IF u.raised # ""
        THEN [raised |-> u.raised, rdata |-> NoRdata, tok |-> c.tok]
        ELSE IF Len(u.data) # n.value
        THEN [raised |-> "SyntaxError", rdata |-> NoRdata, tok |-> c.tok]
        ELSE [raised |-> "", rdata |-> GenericInit(rdclass, rdtype, u.data),
              tok |-> c.tok]
(***************************************************************************)
(* The classes dns.rdtypes modules define: only that their from_text and   *)
(* from_wire were called, and with what, is recorded.                      *)
(***************************************************************************)
VariantFromText(cls, rdclass, rdtype, tok) ==
    [cls |-> cls, rdclass |-> rdclass, rdtype |-> rdtype, data |-> <<>>,
     via |-> "from_text", tok |-> tok, wire |-> <<>>, current |-> 0,
     rdlen |-> 0]

VariantFromWire(cls, rdclass, rdtype, wire, current, rdlen) ==
    [cls |-> cls, rdclass |-> rdclass, rdtype |-> rdtype, data |-> <<>>,
     via |-> "from_wire", tok |-> Tokenizer(<<>>), wire |-> wire,
     current |-> current, rdlen |-> rdlen]

\* dns.wiredata.maybe_wrap: a view of the same bytes
MaybeWrap(wire) == wire

(***************************************************************************)
(* The dispatching from_wire and from_text                                 *)
(***************************************************************************)
FromWire(cache, texts, mods, rdclass, rdtype, wire, current, rdlen) ==
    LET r == GetRdataClass(cache, texts, mods, rdclass, rdtype)
    IN  [raised |-> "", cache |-> r.cache,
         rdata |-> IF r.cls = GenericRdata
                   THEN GenericFromWire(rdclass, rdtype, MaybeWrap(wire),
                                        current, rdlen)
                   ELSE VariantFromWire(r.cls, rdclass, rdtype,
                                        MaybeWrap(wire), current, rdlen)]

FromTextPeekConsumes(cache, texts, mods, rdclass, rdtype, tok) ==
    LET r == GetRdataClass(cache, texts, mods, rdclass, rdtype)
        g == TokGet(tok)
        gen == GenericFromText(rdclass, rdtype, g.tok)
    IN  IF r.cls = GenericRdata
        THEN LET e == GenericFromText(rdclass, rdtype, tok)
             IN  [raised |-> e.raised, cache |-> r.cache, rdata |-> e.rdata]
        ELSE IF IsIdentifier(g.token) /\ g.token.value = GenericEscape
        THEN IF gen.raised # ""
             THEN [raised |-> gen.raised, cache |-> r.cache, rdata |-> NoRdata]
             ELSE FromWire(r.cache, texts, mods, rdclass, rdtype,
                           gen.rdata.data, 0, Len(gen.rdata.data))
        ELSE [raised |-> "", cache |-> r.cache,
              rdata |-> VariantFromText(r.cls, rdclass, rdtype, g.tok)]

FromText(cache, texts, mods, rdclass, rdtype, tok) ==
    LET r == GetRdataClass(cache, texts, mods, rdclass, rdtype)
        g == TokGet(tok)
        peeked == TokUnget(g.tok, g.token)
        gen == GenericFromText(rdclass, rdtype, peeked)
    IN  IF r.cls = GenericRdata
        THEN LET e == GenericFromText(rdclass, rdtype, tok)
             IN  [raised |-> e.raised, cache |-> r.cache, rdata |-> e.rdata]
        ELSE IF IsIdentifier(g.token) /\ g.token.value = GenericEscape
        THEN IF gen.raised # ""
             THEN [raised |-> gen.raised, cache |-> r.cache, rdata |-> NoRdata]
             ELSE FromWire(r.cache, texts, mods, rdclass, rdtype,
                           gen.rdata.data, 0, Len(gen.rdata.data))
        ELSE [raised |-> "", cache |-> r.cache,
              rdata |-> VariantFromText(r.cls, rdclass, rdtype, peeked)]

(***************************************************************************)
(* SpecDispatch: from_text and from_wire calls on a registry that loads    *)
(* the modules there are.                                                  *)
(***************************************************************************)
MaxDispatchTokens == 3
MaxDispatchWire == 2

DispatchVocabulary ==
    { Identifier(GenericEscape), QuotedString(GenericEscape),
      Identifier(<<"1">>), Identifier(<<"a", "b">>), EOL }

TokenStreams(vocabulary, n) ==
    UNION { [1..m -> vocabulary] : m \in 0..n }

DispatchWires ==
    UNION { [1..m -> {0, 255}] : m \in 0..MaxDispatchWire }

\* the arguments of a run's calls: a token stream, or wire bytes with an
\* offset and a length inside them
TextArgs(tokens) ==
    [kind |-> "text", tokens |-> tokens, wire |-> <<>>, current |-> 0,
     rdlen |-> 0]

WireArgs(wire, current, rdlen) ==
    [kind |-> "wire", tokens |-> <<>>, wire |-> wire, current |-> current,
     rdlen |-> rdlen]

DispatchArgs ==
    { TextArgs(tokens) :
        tokens \in TokenStreams(DispatchVocabulary, MaxDispatchTokens) }
    \cup
    UNION { { WireArgs(wire, c[1], c[2]) :
                c \in { x \in (0..Len(wire)) \X (0..Len(wire)) :
                          x[1] + x[2] <= Len(wire) } } :
            wire \in DispatchWires }

InitDispatch ==
    /\ InitRegistry
    /\ modules \in SUBSET CandidateModules
    /\ ret = NoCall
    /\ args \in DispatchArgs
    /\ threads = NoThreads

CallFromText(rdclass, rdtype) ==
    LET r == FromText(rdata_classes, by_value, modules, rdclass, rdtype,
                      Tokenizer(args.tokens))
    IN  /\ args.kind = "text"
        /\ rdata_classes' = r.cache
        /\ ret' = [op |-> "from_text", rdclass |-> rdclass, rdtype |-> rdtype,
                   raised |-> r.raised, rdata |-> r.rdata, text |-> <<>>,
                   file |-> <<>>, written |-> <<>>]
        /\ UNCHANGED <<by_value, singletons, modules, first, registered,
                       args, threads>>

CallFromWire(rdclass, rdtype) ==
    LET r == FromWire(rdata_classes, by_value, modules, rdclass, rdtype,
                      args.wire, args.current, args.rdlen)
    IN  /\ args.kind = "wire"
        /\ rdata_classes' = r.cache
        /\ ret' = [op |-> "from_wire", rdclass |-> rdclass, rdtype |-> rdtype,
                   raised |-> r.raised, rdata |-> r.rdata, text |-> <<>>,
                   file |-> <<>>, written |-> <<>>]
        /\ UNCHANGED <<by_value, singletons, modules, first, registered,
                       args, threads>>

NextDispatch ==
    \/ \E k \in Keys : CallFromText(k[1], k[2])
    \/ \E k \in Keys : CallFromWire(k[1], k[2])

SpecDispatch == InitDispatch /\ [][NextDispatch]_vars

\* C5: a from_text call on a key that resolves to a class other than
\* GenericRdata and whose next token is the identifier \# fails as
\* GenericRdata.from_text fails on the tokens, or else returns what the
\* class's from_wire makes of the decoded bytes, (bytes, 0, len(bytes)); on
\* any other next token the class's from_text is handed the tokenizer with
\* every token still to be read; on a key that resolves to GenericRdata the
\* call is GenericRdata.from_text on the tokens, and the result a GenericRdata.
C5_FromTextStep ==
    ret'.op = "from_text" =>
        LET k == <<ret'.rdclass, ret'.rdtype>>
            cls == Lookup(k)
            tokens == args.tokens
            gen == GenericFromText(k[1], k[2], Tokenizer(tokens))
        IN  IF cls = GenericRdata
            THEN /\ ret'.raised = gen.raised
                 /\ ret'.rdata = gen.rdata
            ELSE IF Len(tokens) > 0 /\ tokens[1] = Identifier(GenericEscape)
            THEN /\ ret'.raised = gen.raised
                 /\ gen.raised = "" =>
                      /\ ret'.rdata.cls = cls
                      /\ ret'.rdata.via = "from_wire"
                      /\ ret'.rdata.wire = gen.rdata.data
                      /\ ret'.rdata.current = 0
                      /\ ret'.rdata.rdlen = Len(gen.rdata.data)
                      /\ ret'.rdata.rdclass = k[1]
                      /\ ret'.rdata.rdtype = k[2]
            ELSE /\ ret'.raised = ""
                 /\ ret'.rdata.cls = cls
                 /\ ret'.rdata.via = "from_text"
                 /\ ReadAll(ret'.rdata.tok) = ReadAll(Tokenizer(tokens))
                 /\ ret'.rdata.rdclass = k[1]
                 /\ ret'.rdata.rdtype = k[2]

C5_GenericSyntaxRedispatched == [][C5_FromTextStep]_vars

\* a known type written in the generic syntax, decoded by its own class
C5_Witness ==
    /\ ret.op = "from_text"
    /\ ret.raised = ""
    /\ ret.rdata.cls \notin {None, GenericRdata}
    /\ ret.rdata.via = "from_wire"
    /\ ret.rdata.wire = <<171>>

\* a known type in its own syntax, handed to its class's from_text
C5_WitnessDelegated ==
    /\ ret.op = "from_text"
    /\ ret.rdata.cls \notin {None, GenericRdata}
    /\ ret.rdata.via = "from_text"
    /\ Len(args.tokens) = 2
(***************************************************************************)
(* SpecGeneric: types no module implements, decoded from wire and from     *)
(* text as GenericRdata and encoded again.                                 *)
(***************************************************************************)
MaxWireLen == 34
MaxCurrent == 1
MaxGenericTokens == 4

GenericVocabulary ==
    { Identifier(GenericEscape), QuotedString(GenericEscape),
      Identifier(<<"1">>), Identifier(<<"2">>), Identifier(<<"a", "b">>),
      Identifier(<<"F">>), EOL }

\* b"\xc0\x00\x02\x01"
ExampleWire == <<192, 0, 2, 1>>

PatternWire(n) == [i \in 1..n |-> (171 * i) % 256]

GenericWires == {ExampleWire} \cup { PatternWire(n) : n \in 0..MaxWireLen }

\* the content of the file to_wire is given
Files == {<<>>, <<9>>}

GenericArgs ==
    { TextArgs(tokens) :
        tokens \in TokenStreams(GenericVocabulary, MaxGenericTokens) }
    \cup
    UNION { { WireArgs(wire, c[1], c[2]) :
                c \in { x \in (0..MaxCurrent) \X (0..Len(wire)) :
                          x[1] + x[2] <= Len(wire) } } :
            wire \in GenericWires }

InitGeneric ==
    /\ InitRegistry
    /\ modules = {}
    /\ ret = NoCall
    /\ args \in GenericArgs
    /\ threads = NoThreads

CallGenericFromText(rdclass, rdtype) ==
    LET r == GenericFromText(rdclass, rdtype, Tokenizer(args.tokens))
    IN  /\ args.kind = "text"
        /\ ret' = [op |-> "GenericRdata.from_text", rdclass |-> rdclass,
                   rdtype |-> rdtype, raised |-> r.raised, rdata |-> r.rdata,
                   text |-> <<>>, file |-> <<>>, written |-> <<>>]
        /\ UNCHANGED <<rdata_classes, by_value, singletons, modules, first,
                       registered, args, threads>>

CallToText ==
    /\ ret.op \in {"from_wire", "GenericRdata.from_text"}
    /\ ret.raised = ""
    /\ ret.rdata.cls = GenericRdata
    /\ ret' = [ret EXCEPT !.op = "to_text", !.text = GenericToText(ret.rdata)]
    /\ UNCHANGED <<rdata_classes, by_value, singletons, modules, first,
                   registered, args, threads>>

CallToWire(file) ==
    /\ ret.op \in {"from_wire", "GenericRdata.from_text"}
    /\ ret.raised = ""
    /\ ret.rdata.cls = GenericRdata
    /\ ret' = [ret EXCEPT !.op = "to_wire", !.file = file,
                          !.written = GenericToWire(ret.rdata, file)]
    /\ UNCHANGED <<rdata_classes, by_value, singletons, modules, first,
                   registered, args, threads>>

NextGeneric ==
    \/ \E k \in Keys : CallFromWire(k[1], k[2])
    \/ \E k \in Keys : CallGenericFromText(k[1], k[2])
    \/ CallToText
    \/ \E file \in Files : CallToWire(file)

SpecGeneric == InitGeneric /\ [][NextGeneric]_vars

\* the number of separators among the characters of a chunked hex line
Separators(nbytes) ==
    IF nbytes = 0 THEN 0 ELSE (2 * nbytes - 1) \div hex_chunksize

\* text is \# , the decimal length of data, a space and data in lowercase
\* hex with a space after every hex_chunksize hex characters
IsGenericText(text, data) ==
    LET n == Len(data)
        sp == CHOOSE j \in 4..(Len(text) + 1) :
                 /\ j <= Len(text) => text[j] = " "
                 /\ \A i \in 4..(j - 1) : text[i] # " "
        d == SubSeq(text, 4, sp - 1)
        h == SubSeq(text, sp + 1, Len(text))
    IN  /\ Len(text) >= 5
        /\ SubSeq(text, 1, 3) = <<"\\", "#", " ">>
        /\ sp <= Len(text)
        /\ IsDigits(d)
        /\ ParseInt(d) = n
        /\ Len(d) = 1 \/ d[1] # "0"
        /\ Len(h) = 2 * n + Separators(n)
        /\ \A p \in 1..Len(h) :
              IF p % (hex_chunksize + 1) = 0
              THEN h[p] = " "
              ELSE LET q == p - (p \div (hex_chunksize + 1))
                       byte == data[(q + 1) \div 2]
                   IN  h[p] = LowerHex[(IF q % 2 = 1 THEN byte \div 16
                                                      ELSE byte % 16) + 1]

\* C6: with no implementation for the pair, from_wire returns a GenericRdata
\* of the class and type holding exactly wire[current : current + rdlen];
\* its to_wire appends exactly those bytes to the file and its to_text is
\* \# , the byte length, and the chunked lowercase hex.
C6_GenericRoundTrip ==
    (args.kind = "wire" /\ ret.op \in {"from_wire", "to_text", "to_wire"}) =>
        /\ ret.raised = ""
        /\ ret.rdata.cls = GenericRdata
        /\ ret.rdata.rdclass = ret.rdclass
        /\ ret.rdata.rdtype = ret.rdtype
        /\ Len(ret.rdata.data) = args.rdlen
        /\ \A i \in 1..args.rdlen :
              ret.rdata.data[i] = args.wire[args.current + i]
        /\ ret.op = "to_wire" =>
              /\ Len(ret.written) = Len(ret.file) + args.rdlen
              /\ SubSeq(ret.written, 1, Len(ret.file)) = ret.file
              /\ \A i \in 1..args.rdlen :
                    ret.written[Len(ret.file) + i]
                      = args.wire[args.current + i]
        /\ ret.op = "to_text" => IsGenericText(ret.text, ret.rdata.data)

\* the text of a value of more than hex_chunksize hex characters, cut out
\* of the wire at an offset
C6_Witness ==
    /\ args.kind = "wire"
    /\ ret.op = "to_text"
    /\ args.current = 1
    /\ args.rdlen = 17
    /\ Len(ret.text) = 6 + 35
    /\ ret.text[6 + 33] = " "

\* the spec's example: b"\xc0\x00\x02\x01" reads \# 4 c0000201
C6_WitnessExample ==
    /\ args.kind = "wire"
    /\ args.wire = ExampleWire
    /\ ret.op = "to_text"
    /\ ret.text = <<"\\", "#", " ", "4", " ",
                    "c", "0", "0", "0", "0", "2", "0", "1">>

\* the tokens from the third up to the end of the line, concatenated
RECURSIVE HexOfLine(_, _)
HexOfLine(tokens, i) ==
    IF i > Len(tokens) \/ tokens[i] = EOL THEN <<>>
    ELSE tokens[i].value \o HexOfLine(tokens, i + 1)

WellFormedHex(hex) ==
    Len(hex) % 2 = 0 /\ \A i \in 1..Len(hex) : IsHexDigit(hex[i])

\* \# , an integer and well-formed hex of that many bytes
AcceptedGenericSyntax(tokens) ==
    /\ Len(tokens) >= 2
    /\ tokens[1] = Identifier(GenericEscape)
    /\ IsIdentifier(tokens[2])
    /\ IsDigits(tokens[2].value)
    /\ WellFormedHex(HexOfLine(tokens, 3))
    /\ Len(HexOfLine(tokens, 3)) = 2 * ParseInt(tokens[2].value)

DecodesTo(hex, data) ==
    /\ 2 * Len(data) = Len(hex)
    /\ \A i \in 1..Len(data) :
          data[i] = 16 * HexValue(hex[2 * i - 1]) + HexValue(hex[2 * i])

\* C8 as stated: GenericRdata.from_text returns the value for exactly the
\* accepted inputs and fails with a syntax error on every other input.
C8_SyntaxErrorOtherwise ==
    ret.op = "GenericRdata.from_text" =>
        IF AcceptedGenericSyntax(args.tokens)
        THEN /\ ret.raised = ""
             /\ ret.rdata.cls = GenericRdata
             /\ DecodesTo(HexOfLine(args.tokens, 3), ret.rdata.data)
        ELSE /\ ret.raised = "SyntaxError"
             /\ ret.rdata = NoRdata

\* what the code does: as C8, but malformed hex after \# and an integer
\* fails with binascii.Error
C8_ErrorKinds ==
    ret.op = "GenericRdata.from_text" =>
        IF AcceptedGenericSyntax(args.tokens)
        THEN /\ ret.raised = ""
             /\ ret.rdata.cls = GenericRdata
             /\ DecodesTo(HexOfLine(args.tokens, 3), ret.rdata.data)
        ELSE /\ ret.rdata = NoRdata
             /\ ret.raised =
                  IF /\ Len(args.tokens) >= 2
                     /\ args.tokens[1] = Identifier(GenericEscape)
                     /\ IsIdentifier(args.tokens[2])
                     /\ IsDigits(args.tokens[2].value)
                     /\ ~WellFormedHex(HexOfLine(args.tokens, 3))
                  THEN "binascii.Error"
                  ELSE "SyntaxError"
(***************************************************************************)
(* SpecCmp: the comparison methods of Rdata, on GenericRdata values.       *)
(***************************************************************************)
MaxCmpLen == 2

\* bytes compared as Python compares them: -1, 0 or 1
RECURSIVE BytesCompare(_, _)
BytesCompare(a, b) ==
    IF Len(a) = 0 /\ Len(b) = 0 THEN 0
    ELSE IF Len(a) = 0 THEN -1
    ELSE IF Len(b) = 0 THEN 1
    ELSE IF Head(a) < Head(b) THEN -1
    ELSE IF Head(a) > Head(b) THEN 1
    ELSE BytesCompare(Tail(a), Tail(b))

\* Rdata.to_digestable, for a GenericRdata
ToDigestable(rdata) == GenericToWire(rdata, <<>>)

CmpNoEqual(self, other) ==
    IF BytesCompare(ToDigestable(self), ToDigestable(other)) > 0 THEN 1 ELSE -1

\* Rdata._cmp
Cmp(self, other) ==
    LET our == ToDigestable(self)
        their == ToDigestable(other)
    IN  IF our = their THEN 0
        ELSE IF BytesCompare(our, their) > 0 THEN 1
        ELSE -1

SameKey(self, other) ==
    self.rdclass = other.rdclass /\ self.rdtype = other.rdtype

PyBool(b) == IF b THEN "True" ELSE "False"

\* Rdata.__eq__, __ne__, __lt__, __le__, __ge__, __gt__
Eq(self, other) ==
    IF ~SameKey(self, other) THEN "False" ELSE PyBool(Cmp(self, other) = 0)
Ne(self, other) ==
    IF ~SameKey(self, other) THEN "True" ELSE PyBool(Cmp(self, other) # 0)
Lt(self, other) ==
    IF ~SameKey(self, other) THEN "NotImplemented"
    ELSE PyBool(Cmp(self, other) < 0)
Le(self, other) ==
    IF ~SameKey(self, other) THEN "NotImplemented"
    ELSE PyBool(Cmp(self, other) <= 0)
Ge(self, other) ==
    IF ~SameKey(self, other) THEN "NotImplemented"
    ELSE PyBool(Cmp(self, other) >= 0)
Gt(self, other) ==
    IF ~SameKey(self, other) THEN "NotImplemented"
    ELSE PyBool(Cmp(self, other) > 0)

Compare(op, self, other) ==
    CASE op = "__eq__" -> Eq(self, other)
      [] op = "__ne__" -> Ne(self, other)
      [] op = "__lt__" -> Lt(self, other)
      [] op = "__le__" -> Le(self, other)
      [] op = "__ge__" -> Ge(self, other)
      [] op = "__gt__" -> Gt(self, other)

CmpOps == {"__eq__", "__ne__", "__lt__", "__le__", "__ge__", "__gt__"}

CmpBytes == UNION { [1..m -> {0, 255}] : m \in 0..MaxCmpLen }

InitCmp ==
    /\ InitRegistry
    /\ modules = {}
    /\ ret = NoCall
    /\ args \in { [a |-> GenericInit(RDCLASS_IN, NSAP_PTR, x[1]),
                   b |-> GenericInit(x[4], NSAP_PTR, x[2]),
                   c |-> GenericInit(RDCLASS_IN, NSAP_PTR, x[3])] :
                  x \in CmpBytes \X CmpBytes \X CmpBytes
                          \X {RDCLASS_IN, RDCLASS_CH} }
    /\ threads = NoThreads

CallCompare(op) ==
    /\ ret' = [op |-> op, raised |-> "", result |-> Compare(op, args.a, args.b)]
    /\ UNCHANGED <<rdata_classes, by_value, singletons, modules, first,
                   registered, args, threads>>

NextCmp == \E op \in CmpOps : CallCompare(op)

SpecCmp == InitCmp /\ [][NextCmp]_vars

\* a is before b in the lexicographic order of byte strings
LexLess(a, b) ==
    \E i \in 1..(Len(a) + 1) :
        /\ i <= Len(b)
        /\ \A j \in 1..(i - 1) : a[j] = b[j]
        /\ i = Len(a) + 1 \/ a[i] < b[i]

\* C7: among values of one class and type exactly one of a < b, a == b,
\* a > b holds; a < b is the lexicographic order of the canonical wire
\* bytes, antisymmetric and transitive; a <= b is (a < b or a == b), a >= b
\* is (a > b or a == b), and a != b is the negation of a == b.
C7_TotalOrder ==
    LET vals == {args.a, args.b, args.c}
        T(r) == r = "True"
    IN  \A x \in vals, y \in vals :
            SameKey(x, y) =>
                /\ {Lt(x, y), Eq(x, y), Gt(x, y), Le(x, y), Ge(x, y), Ne(x, y)}
                     \subseteq {"True", "False"}
                /\ Cardinality({ r \in {"lt", "eq", "gt"} :
                        \/ r = "lt" /\ T(Lt(x, y))
                        \/ r = "eq" /\ T(Eq(x, y))
                        \/ r = "gt" /\ T(Gt(x, y)) }) = 1
                /\ T(Lt(x, y)) <=> LexLess(x.data, y.data)
                /\ T(Eq(x, y)) <=> x.data = y.data
                /\ T(Gt(x, y)) <=> T(Lt(y, x))
                /\ ~(T(Lt(x, y)) /\ T(Lt(y, x)))
                /\ T(Le(x, y)) <=> (T(Lt(x, y)) \/ T(Eq(x, y)))
                /\ T(Ge(x, y)) <=> (T(Gt(x, y)) \/ T(Eq(x, y)))
                /\ T(Ne(x, y)) <=> ~T(Eq(x, y))
                /\ \A z \in vals :
                      (SameKey(y, z) /\ T(Lt(x, y)) /\ T(Lt(y, z)))
                          => T(Lt(x, z))

\* a < b < c of one class and type, b a proper prefix of c, asked a <= b
C7_Witness ==
    /\ ret.op = "__le__"
    /\ ret.result = "True"
    /\ SameKey(args.a, args.b)
    /\ args.a.data = <<0, 255>>
    /\ args.b.data = <<255>>
    /\ args.c.data = <<255, 0>>

(***************************************************************************)
(* SpecBitmap: _truncate_bitmap                                            *)
(***************************************************************************)
MaxBitmapLen == 4

\* for i in range(len(what) - 1, -1, -1), scanning forwards instead
RECURSIVE ScanBitmapForwards(_, _)
ScanBitmapForwards(what, i) ==
    IF i >= Len(what) THEN Slice(what, 0, 1)
    ELSE IF what[i + 1] # 0 THEN Slice(what, 0, i + 1)
    ELSE ScanBitmapForwards(what, i + 1)

TruncateBitmapFromStart(what) == ScanBitmapForwards(what, 0)

\* for i in range(len(what) - 1, -1, -1): i is the 0-based index
RECURSIVE ScanBitmap(_, _)
ScanBitmap(what, i) ==
    IF i < 0 THEN Slice(what, 0, 1)
    ELSE IF what[i + 1] # 0 THEN Slice(what, 0, i + 1)
    ELSE ScanBitmap(what, i - 1)

\* _truncate_bitmap
TruncateBitmap(what) == ScanBitmap(what, Len(what) - 1)

Bitmaps == UNION { [1..m -> {0, 1, 2}] : m \in 0..MaxBitmapLen }

InitBitmap ==
    /\ InitRegistry
    /\ modules = {}
    /\ ret = NoCall
    /\ args \in { [what |-> w] : w \in Bitmaps }
    /\ threads = NoThreads

CallTruncateBitmap ==
    /\ ret' = [op |-> "_truncate_bitmap", raised |-> "",
               result |-> TruncateBitmap(args.what)]
    /\ UNCHANGED <<rdata_classes, by_value, singletons, modules, first,
                   registered, args, threads>>

NextBitmap == CallTruncateBitmap

SpecBitmap == InitBitmap /\ [][NextBitmap]_vars

IsPrefix(p, s) == Len(p) <= Len(s) /\ \A i \in 1..Len(p) : p[i] = s[i]

\* the prefixes of s that end in a non-zero byte, by their lengths
NonZeroEnds(s) == { n \in 1..Len(s) : s[n] # 0 }

\* C9 as stated: the shortest prefix whose last byte is non-zero, or the
\* first byte only when no byte is non-zero, and never less than one byte.
C9_ShortestPrefix ==
    ret.op = "_truncate_bitmap" =>
        /\ IsPrefix(ret.result, args.what)
        /\ NonZeroEnds(args.what) # {} =>
              /\ Len(ret.result) \in NonZeroEnds(args.what)
              /\ \A n \in NonZeroEnds(args.what) : Len(ret.result) <= n
        /\ NonZeroEnds(args.what) = {} =>
              /\ Len(ret.result) = 1
              /\ Len(args.what) > 0 => ret.result[1] = args.what[1]
        /\ Len(ret.result) >= 1

\* C9 amended: the longest prefix whose last byte is non-zero (the input
\* without its trailing zero bytes) when some byte is non-zero; otherwise the
\* first byte only, which for the empty input is the empty string: the
\* result has at least one byte exactly when the input has.
C9_TrailingZerosRemoved ==
    ret.op = "_truncate_bitmap" =>
        /\ IsPrefix(ret.result, args.what)
        /\ NonZeroEnds(args.what) # {} =>
              /\ Len(ret.result) \in NonZeroEnds(args.what)
              /\ \A n \in NonZeroEnds(args.what) : n <= Len(ret.result)
        /\ (NonZeroEnds(args.what) = {} /\ Len(args.what) > 0)
              => ret.result = <<args.what[1]>>
        /\ Len(args.what) = 0 => ret.result = <<>>
        /\ Len(ret.result) >= 1 <=> Len(args.what) >= 1

\* a bitmap with a zero between non-zero bytes and a trailing zero
C9_Witness ==
    /\ ret.op = "_truncate_bitmap"
    /\ args.what = <<1, 0, 2, 0>>
    /\ ret.result = <<1, 0, 2>>

\* the all-zero and the empty bitmap
C9_WitnessZero ==
    /\ ret.op = "_truncate_bitmap"
    /\ args.what = <<0, 0>>
    /\ ret.result = <<0>>
(***************************************************************************)
(* SpecReplace: Rdata.replace, on GenericRdata values.                     *)
(***************************************************************************)
MaxKwargs == 2

\* inspect.signature(self.__init__).parameters of a GenericRdata
Parameters(self) == <<"rdclass", "rdtype", "data">>

\* getattr(self, key), for a key among the parameters
GetField(self, key) ==
    CASE key = "rdclass" -> <<self.rdclass>>
      [] key = "rdtype" -> <<self.rdtype>>
      [] key = "data" -> self.data

\* kwargs.get(key, default); kwargs is a sequence of <<key, value>>
KwargsGet(kwargs, key, default) ==
    IF \E i \in 1..Len(kwargs) : kwargs[i][1] = key
    THEN kwargs[CHOOSE i \in 1..Len(kwargs) : kwargs[i][1] = key][2]
    ELSE default

\* self.__class__(*args), for a GenericRdata
Construct(self, values) ==
    [cls |-> self.cls, rdclass |-> values[1][1], rdtype |-> values[2][1],
     data |-> values[3]]

\* the for loop of replace: the first key it refuses, or 0
RECURSIVE FirstRefused(_, _, _)
FirstRefused(self, kwargs, i) ==
    IF i > Len(kwargs) THEN 0
    ELSE IF \A j \in 1..Len(Parameters(self)) :
                Parameters(self)[j] # kwargs[i][1]
    THEN i
    ELSE IF kwargs[i][1] \in {"rdclass", "rdtype"} THEN i
    ELSE FirstRefused(self, kwargs, i + 1)

RECURSIVE FirstUnknown(_, _, _)
FirstUnknown(self, kwargs, i) ==
    IF i > Len(kwargs) THEN 0
    ELSE IF \A j \in 1..Len(Parameters(self)) :
                Parameters(self)[j] # kwargs[i][1]
    THEN i
    ELSE FirstUnknown(self, kwargs, i + 1)

ReplaceAnyParameter(self, kwargs) ==
    IF FirstUnknown(self, kwargs, 1) # 0
    THEN [raised |-> "AttributeError", constructed |-> 0, rdata |-> NoRdata]
    ELSE [raised |-> "", constructed |-> 1,
          rdata |-> Construct(self,
                       [j \in 1..Len(Parameters(self)) |->
                           KwargsGet(kwargs, Parameters(self)[j],
                                     GetField(self, Parameters(self)[j]))])]

\* Rdata.replace
Replace(self, kwargs) ==
    IF FirstRefused(self, kwargs, 1) # 0
    THEN [raised |-> "AttributeError", constructed |-> 0, rdata |-> NoRdata]
    ELSE [raised |-> "", constructed |-> 1,
          rdata |-> Construct(self,
                       [j \in 1..Len(Parameters(self)) |->
                           KwargsGet(kwargs, Parameters(self)[j],
                                     GetField(self, Parameters(self)[j]))])]

ReplaceData == {<<>>, <<7>>, <<7, 8>>}

\* the keyword arguments: a name and a value for it
KwargItems ==
    { <<"data", d>> : d \in ReplaceData }
    \cup { <<"rdclass", <<c>>>> : c \in {RDCLASS_IN, RDCLASS_CH} }
    \cup { <<"rdtype", <<NSAP_PTR>>>>, <<"covers", <<0>>>> }

\* a dict holds a key once
Kwargs ==
    { kw \in UNION { [1..m -> KwargItems] : m \in 0..MaxKwargs } :
        \A i \in 1..Len(kw), j \in 1..Len(kw) :
            i # j => kw[i][1] # kw[j][1] }

InitReplace ==
    /\ InitRegistry
    /\ modules = {}
    /\ ret = NoCall
    /\ args \in { [self |-> GenericInit(RDCLASS_IN, NSAP_PTR, d),
                   kwargs |-> kw] : d \in ReplaceData, kw \in Kwargs }
    /\ threads = NoThreads

CallReplace ==
    LET r == Replace(args.self, args.kwargs)
    IN  /\ ret' = [op |-> "replace", raised |-> r.raised,
                   constructed |-> r.constructed, rdata |-> r.rdata]
        /\ UNCHANGED <<rdata_classes, by_value, singletons, modules, first,
                       registered, args, threads>>

NextReplace == CallReplace

SpecReplace == InitReplace /\ [][NextReplace]_vars

KwargKeys(kwargs) == { kwargs[i][1] : i \in 1..Len(kwargs) }

\* C10: replace fails with AttributeError, constructing nothing, exactly
\* when a named field is no constructor parameter or is rdclass or rdtype;
\* otherwise it constructs one instance of the same class, with the class
\* and type of the original and the named fields' values, every other
\* field as in the original; the original is left as it was.
C10_ReplaceStep ==
    ret'.op = "replace" =>
        LET v == args.self
            keys == KwargKeys(args.kwargs)
            invalid == keys \ {"data"} # {}
        IN  /\ args' = args
            /\ invalid =>
                  /\ ret'.raised = "AttributeError"
                  /\ ret'.constructed = 0
                  /\ ret'.rdata = NoRdata
            /\ ~invalid =>
                  /\ ret'.raised = ""
                  /\ ret'.constructed = 1
                  /\ ret'.rdata.cls = v.cls
                  /\ ret'.rdata.rdclass = v.rdclass
                  /\ ret'.rdata.rdtype = v.rdtype
                  /\ "data" \notin keys => ret'.rdata.data = v.data
                  /\ \A d \in ReplaceData :
                        (\E i \in 1..Len(args.kwargs) :
                            args.kwargs[i] = <<"data", d>>)
                          => ret'.rdata.data = d

C10_ReplaceCopies == [][C10_ReplaceStep]_vars

\* a replace of the data field by other bytes
C10_Witness ==
    /\ ret.op = "replace"
    /\ ret.raised = ""
    /\ args.self.data = <<7>>
    /\ ret.rdata.data = <<7, 8>>

\* a replace naming rdclass after a valid field, refused
C10_WitnessRefused ==
    /\ ret.op = "replace"
    /\ ret.raised = "AttributeError"
    /\ Len(args.kwargs) = 2
    /\ args.kwargs[1][1] = "data"
    /\ args.kwargs[2][1] = "rdclass"

(***************************************************************************)
(* SpecConc: two threads call get_rdata_class and register_type on the     *)
(* one _rdata_classes. The code takes no lock; a step is one read or one   *)
(* write of shared state (a dict get, a dict store, an import), which is   *)
(* what the interpreter runs without switching threads.                    *)
(***************************************************************************)
Threads == {"t1", "t2"}

\* the register_type calls of real implementations
RealRegInputs == { inp \in RegInputs : inp.implementation # <<"dns", "rdata">> }

NoInput == [implementation |-> <<>>, rdtype_text |-> <<>>,
            is_singleton |-> FALSE]

Call(op, rdclass, rdtype, inp) ==
    [pc |-> "get_exact", op |-> op, rdclass |-> rdclass, rdtype |-> rdtype,
     inp |-> inp, rdtype_text |-> <<>>, cls |-> None, raised |-> ""]

InitConc ==
    /\ InitRegistry
    /\ modules \in SUBSET CandidateModules
    /\ ret = NoCall
    /\ args = NoArgs
    /\ threads \in
         { [t \in Threads |-> IF t = "t1" THEN c[1] ELSE c[2]] :
             c \in ({ Call("get_rdata_class", k[1], k[2], NoInput) :
                        k \in Keys }
                    \cup { Call("register_type", x[1][1], x[1][2], x[2]) :
                             x \in Keys \X RealRegInputs })
                   \X { Call("register_type", x[1][1], x[1][2], x[2]) :
                          x \in Keys \X RealRegInputs } }

Key(t) == <<threads[t].rdclass, threads[t].rdtype>>

\* get_rdata_class returns cls: the end of a lookup, or register_type's
\* test of existing_cls (line 508)
Return(t, cls) ==
    IF threads[t].op = "get_rdata_class"
    THEN [threads[t] EXCEPT !.pc = "done", !.cls = cls]
    ELSE IF cls # GenericRdata
    THEN [threads[t] EXCEPT !.pc = "done", !.cls = cls,
                            !.raised = "RdatatypeExists"]
    ELSE [threads[t] EXCEPT !.pc = "bind", !.cls = cls]

ConcFrame == UNCHANGED <<modules, ret, first, registered, args>>

\* line 368
GetExact(t) ==
    /\ threads[t].pc = "get_exact"
    /\ threads' = [threads EXCEPT ![t] =
          IF rdata_classes[Key(t)] # None
          THEN Return(t, rdata_classes[Key(t)])
          ELSE [threads[t] EXCEPT !.pc = "get_any"]]
    /\ UNCHANGED <<rdata_classes, by_value, singletons>>
    /\ ConcFrame

\* line 370
GetAny(t) ==
    /\ threads[t].pc = "get_any"
    /\ threads' = [threads EXCEPT ![t] =
          IF rdata_classes[<<ANY, threads[t].rdtype>>] # None
          THEN Return(t, rdata_classes[<<ANY, threads[t].rdtype>>])
          ELSE [threads[t] EXCEPT !.pc = "type_text"]]
    /\ UNCHANGED <<rdata_classes, by_value, singletons>>
    /\ ConcFrame

\* lines 372-374
TypeText(t) ==
    /\ threads[t].pc = "type_text"
    /\ threads' = [threads EXCEPT ![t] =
          [threads[t] EXCEPT !.pc = "import_specific",
              !.rdtype_text =
                  ReplaceDash(RdatatypeToText(by_value, threads[t].rdtype))]]
    /\ UNCHANGED <<rdata_classes, by_value, singletons>>
    /\ ConcFrame

\* lines 375-378 and 380
ImportSpecific(t) ==
    LET specific == ModuleName(RdataclassToText(threads[t].rdclass),
                               threads[t].rdtype_text)
    IN  /\ threads[t].pc = "import_specific"
        /\ threads' = [threads EXCEPT ![t] =
              IF specific \in modules
              THEN [threads[t] EXCEPT !.pc = "store_specific",
                       !.cls = GetAttr(specific, threads[t].rdtype_text)]
              ELSE [threads[t] EXCEPT !.pc = "import_any"]]
        /\ UNCHANGED <<rdata_classes, by_value, singletons>>
        /\ ConcFrame

\* line 379
StoreSpecific(t) ==
    /\ threads[t].pc = "store_specific"
    /\ rdata_classes' = [rdata_classes EXCEPT ![Key(t)] = threads[t].cls]
    /\ threads' = [threads EXCEPT ![t] = Return(t, threads[t].cls)]
    /\ UNCHANGED <<by_value, singletons>>
    /\ ConcFrame

\* lines 381-384 and 387-389
ImportAny(t) ==
    LET any == ModuleName(<<"ANY">>, threads[t].rdtype_text)
    IN  /\ threads[t].pc = "import_any"
        /\ threads' = [threads EXCEPT ![t] =
              IF any \in modules
              THEN [threads[t] EXCEPT !.pc = "store_any",
                       !.cls = GetAttr(any, threads[t].rdtype_text)]
              ELSE [threads[t] EXCEPT !.pc = "store_generic"]]
        /\ UNCHANGED <<rdata_classes, by_value, singletons>>
        /\ ConcFrame

\* line 385
StoreAny(t) ==
    /\ threads[t].pc = "store_any"
    /\ rdata_classes' = [rdata_classes EXCEPT
                            ![<<ANY, threads[t].rdtype>>] = threads[t].cls]
    /\ threads' = [threads EXCEPT ![t] =
                      [threads[t] EXCEPT !.pc = "store_any_key"]]
    /\ UNCHANGED <<by_value, singletons>>
    /\ ConcFrame

\* line 386
StoreAnyKey(t) ==
    /\ threads[t].pc = "store_any_key"
    /\ rdata_classes' = [rdata_classes EXCEPT ![Key(t)] = threads[t].cls]
    /\ threads' = [threads EXCEPT ![t] = Return(t, threads[t].cls)]
    /\ UNCHANGED <<by_value, singletons>>
    /\ ConcFrame

\* lines 390-392
StoreGeneric(t) ==
    /\ threads[t].pc = "store_generic"
    /\ rdata_classes' = [rdata_classes EXCEPT ![Key(t)] = GenericRdata]
    /\ threads' = [threads EXCEPT ![t] = Return(t, GenericRdata)]
    /\ UNCHANGED <<by_value, singletons>>
    /\ ConcFrame

\* lines 510-511
Bind(t) ==
    /\ threads[t].pc = "bind"
    /\ rdata_classes' = [rdata_classes EXCEPT ![Key(t)] =
          GetAttr(threads[t].inp.implementation,
                  ReplaceDash(threads[t].inp.rdtype_text))]
    /\ threads' = [threads EXCEPT ![t] =
                      [threads[t] EXCEPT !.pc = "register_text"]]
    /\ UNCHANGED <<by_value, singletons>>
    /\ ConcFrame

\* line 512
RegisterText(t) ==
    /\ threads[t].pc = "register_text"
    /\ by_value' = [by_value EXCEPT ![threads[t].rdtype] =
                       threads[t].inp.rdtype_text]
    /\ singletons' = IF threads[t].inp.is_singleton
                     THEN singletons \cup {threads[t].rdtype}
                     ELSE singletons
    /\ threads' = [threads EXCEPT ![t] = [threads[t] EXCEPT !.pc = "done"]]
    /\ UNCHANGED rdata_classes
    /\ ConcFrame

NextConc ==
    \/ \E t \in Threads : GetExact(t)
    \/ \E t \in Threads : GetAny(t)
    \/ \E t \in Threads : TypeText(t)
    \/ \E t \in Threads : ImportSpecific(t)
    \/ \E t \in Threads : StoreSpecific(t)
    \/ \E t \in Threads : ImportAny(t)
    \/ \E t \in Threads : StoreAny(t)
    \/ \E t \in Threads : StoreAnyKey(t)
    \/ \E t \in Threads : StoreGeneric(t)
    \/ \E t \in Threads : Bind(t)
    \/ \E t \in Threads : RegisterText(t)

SpecConc == InitConc /\ [][NextConc]_vars

Succeeded(t) ==
    /\ threads[t].op = "register_type"
    /\ threads[t].pc = "done"
    /\ threads[t].raised = ""

\* C4 as stated: of two concurrent register_type calls for one key at most
\* one succeeds, and once both callers of a key are done the key holds the
\* class a successful register_type bound.
C4_AtomicCheckThenInsert ==
    \A t \in Threads, u \in Threads :
        (t # u /\ Key(t) = Key(u) /\ Succeeded(t) /\ threads[u].pc = "done")
          => /\ ~Succeeded(u)
             /\ rdata_classes[Key(t)] =
                  GetAttr(threads[t].inp.implementation,
                          ReplaceDash(threads[t].inp.rdtype_text))
====
